---------------------------- MODULE Spec2Model ----------------------------
(***************************************************************************)
(* State-machine model of three parts of the repository:                   *)
(*   - the index record array (mail_index_lookup, mail_index_next,         *)
(*     mail_index_lookup_uid_range, mail_index_expunge_record_range),      *)
(*     src/src/lib-storage/index/maildir/maildir-save.c lines 383-498;     *)
(*   - the transactional maildir save (maildir_save_init .. rollback),     *)
(*     src/src/lib-storage/index/maildir/maildir-save.c lines 18-381;      *)
(*   - the auth multiplexer, src/src/login-common/auth-connection.c.       *)
(* Each part has its own specifications (SpecIndex, SpecSave, SpecAuth)    *)
(* over the same variables; a part's specification leaves the variables    *)
(* of the other parts at their idle values.                                *)
(***************************************************************************)
EXTENDS Integers, Sequences, FiniteSets, TLC

VARIABLES
    \* ---- index record array (struct mail_index) ----
    recs,             \* the mmap()ed record area, INDEX_RECORD_AT(index, i-1) = recs[i]
    messages_count,   \* index->header->messages_count
    used_records,     \* (mmap_used_length - header) / sizeof(record), MAIL_INDEX_RECORD_COUNT
    idx_op,           \* the last index operation: its arguments, the array before it, its result
    \* ---- maildir save (struct maildir_save_context, one per transaction) ----
    save_ctx,         \* t->save_ctx of every transaction: NULL or the context
    index_trans,      \* the index transaction of every transaction: appended placeholder records
    txn,              \* every transaction: where its caller stands and how it ended
    tmpdir,           \* <mailbox>/tmp : file name -> file (inode)
    newdir,           \* <mailbox>/new
    curdir,           \* <mailbox>/cur
    uidlist,          \* the UID list: next_uid and its (file name, uid) records
    keep_recent,      \* ibox->keep_recent
    commits,          \* log of the commits run so far, in order
    save_ret,         \* the last save call: its name, transaction and return value
    \* ---- auth multiplexer (globals of auth-connection.c) ----
    auth_connections,             \* the registry: the list of connections, head first
    conn,                         \* the struct auth_connection objects
    request,                      \* the struct auth_request objects and what their callers hold
    available_auth_mechs,         \* the process-wide mechanism cache
    auth_reconnect,
    request_id_counter,
    auth_waiting_handshake_count,
    to,                           \* the rescan timer: "none", "added", "removed"
    auth_ev           \* the last auth call: its inputs, result and the callbacks it made

idxvars == <<recs, messages_count, used_records, idx_op>>

savevars == <<save_ctx, index_trans, txn, tmpdir, newdir, curdir, uidlist,
              keep_recent, commits, save_ret>>

authvars == <<auth_connections, conn, request, available_auth_mechs, auth_reconnect,
              request_id_counter, auth_waiting_handshake_count, to, auth_ev>>

vars == <<recs, messages_count, used_records, idx_op,
          save_ctx, index_trans, txn, tmpdir, newdir, curdir, uidlist,
          keep_recent, commits, save_ret,
          auth_connections, conn, request, available_auth_mechs, auth_reconnect,
          request_id_counter, auth_waiting_handshake_count, to, auth_ev>>

Null == "NULL"

(***************************************************************************)
(*                        Index record array                               *)
(***************************************************************************)

\* Bounds of the index model.
MaxRecs == 4
MaxUid == 5

Uids == 1..MaxUid
MsgFlags == 0..1
IndexRecord == [uid : Uids, msg_flags : MsgFlags]

StrictlyIncreasing(rs) ==
    \A i \in 1..Len(rs) : \A j \in 1..Len(rs) : i < j => rs[i].uid < rs[j].uid

\* The record arrays the index keeps: dense, strictly increasing UIDs.
RecordArrays ==
    UNION {{rs \in [1..n -> IndexRecord] : StrictlyIncreasing(rs)} : n \in 0..MaxRecs}

NoOp == [op |-> "none"]

IndexInit ==
    /\ recs \in RecordArrays
    /\ messages_count = Len(recs)
    /\ used_records = Len(recs)
    /\ idx_op = NoOp

\* The index part left alone: an empty index no operation is run on.
IndexIdle ==
    /\ recs = << >>
    /\ messages_count = 0
    /\ used_records = 0
    /\ idx_op = NoOp

\* MAIL_INDEX_RECORD_COUNT(index)
MAIL_INDEX_RECORD_COUNT == used_records

\* mail_index_lookup(): seq is one-based; NULL past messages_count.
mail_index_lookup(seq) ==
    IF seq > messages_count THEN Null ELSE recs[seq]

MailIndexLookup(seq) ==
    /\ seq > 0                                   \* i_assert(seq > 0)
    /\ idx_op' = [op |-> "lookup", seq |-> seq,
                  rec |-> IF seq > messages_count THEN Null ELSE seq,
                  found |-> mail_index_lookup(seq)]
    /\ UNCHANGED <<recs, messages_count, used_records>>
    /\ UNCHANGED <<savevars, authvars>>

\* mail_index_next(): rec+1, or NULL when rec+1 == INDEX_END_RECORD(index).
\* Records are named by their zero-based array index.
mail_index_next(idx) ==
    IF idx + 1 = MAIL_INDEX_RECORD_COUNT THEN Null ELSE idx + 1

MailIndexNext(idx) ==
    /\ idx >= 0                                  \* i_assert(rec >= INDEX_RECORD_AT(index, 0))
    /\ idx < MAIL_INDEX_RECORD_COUNT
    /\ idx_op' = [op |-> "next", idx |-> idx, rec |-> mail_index_next(idx)]
    /\ UNCHANGED <<recs, messages_count, used_records>>
    /\ UNCHANGED <<savevars, authvars>>

\* rec_p[idx].uid.  A read at idx >= idx_limit is outside the record array:
\* its value is whatever the mapping holds there (oob[idx]).
RecUid(rs, limit, idx, oob) ==
    IF idx < limit THEN rs[idx + 1].uid ELSE oob[idx]

\* The while loop of mail_index_lookup_uid_range: returns the final idx.
RECURSIVE BinarySearch(_, _, _, _, _)
BinarySearch(rs, first_uid, idx, left_idx, right_idx) ==
    IF left_idx < right_idx
    THEN LET mid == (left_idx + right_idx) \div 2
         IN  IF rs[mid + 1].uid < first_uid
             THEN BinarySearch(rs, first_uid, mid, mid + 1, right_idx)
             ELSE IF rs[mid + 1].uid > first_uid
                  THEN BinarySearch(rs, first_uid, mid, left_idx, mid)
                  ELSE mid
    ELSE idx

OutOfRange(u, first_uid, last_uid) == u < first_uid \/ u > last_uid

\* mail_index_lookup_uid_range(): [rec |-> zero-based index or NULL, seq |-> *seq_r].
mail_index_lookup_uid_range(rs, idx_limit, first_uid, last_uid, oob) ==
    LET idx == BinarySearch(rs, first_uid, 0, 0, idx_limit)
    IN  IF OutOfRange(RecUid(rs, idx_limit, idx, oob), first_uid, last_uid)
        THEN \* could still be the next one
             IF \/ idx + 1 = idx_limit
                \/ OutOfRange(RecUid(rs, idx_limit, idx + 1, oob), first_uid, last_uid)
             THEN [rec |-> Null, seq |-> 0]
             ELSE [rec |-> idx + 1, seq |-> idx + 2]
        ELSE [rec |-> idx, seq |-> idx + 1]

\* Whether the call reads rec_p[] at or past idx_limit.
ReadsOutOfBounds(rs, idx_limit, first_uid) ==
    BinarySearch(rs, first_uid, 0, 0, idx_limit) >= idx_limit

\* What the two words past the end of the array can hold.
OobReads == [0..1 -> 0..MaxUid]

MailIndexLookupUidRange(first_uid, last_uid) ==
    /\ first_uid > 0                             \* i_assert(first_uid > 0)
    /\ first_uid <= last_uid                     \* i_assert(first_uid <= last_uid)
    /\ \E oob \in OobReads :
         /\ ReadsOutOfBounds(recs, MAIL_INDEX_RECORD_COUNT, first_uid)
              \/ oob = [i \in 0..1 |-> 0]
         /\ idx_op' = [op |-> "lookup_uid_range",
                       first_uid |-> first_uid, last_uid |-> last_uid,
                       res |-> mail_index_lookup_uid_range(
                                   recs, MAIL_INDEX_RECORD_COUNT,
                                   first_uid, last_uid, oob)]
    /\ UNCHANGED <<recs, messages_count, used_records>>
    /\ UNCHANGED <<savevars, authvars>>

\* memmove(rec + remove_first_idx, rec + remove_last_idx + 1,
\*         (idx_limit - remove_last_idx - 1) * sizeof(*rec)) on the record area.
MemMove(rs, dst, src, n) ==
    [i \in 1..Len(rs) |->
        IF i - 1 >= dst /\ i - 1 < dst + n THEN rs[(i - 1 - dst) + src + 1] ELSE rs[i]]

\* compress() with the tail copied from one record too early.
compress_offbyone(remove_first_idx, remove_last_idx) ==
    LET idx_limit == MAIL_INDEX_RECORD_COUNT
        count == remove_last_idx - remove_first_idx + 1
        moved == MemMove(recs, remove_first_idx, remove_last_idx,
                         idx_limit - remove_last_idx - 1)
    IN  /\ used_records' = used_records - count
        /\ recs' = SubSeq(moved, 1, used_records - count)

\* compress(): shift the tail down, shrink the used length, truncate the file.
compress(remove_first_idx, remove_last_idx) ==
    LET idx_limit == MAIL_INDEX_RECORD_COUNT
        count == remove_last_idx - remove_first_idx + 1
        moved == MemMove(recs, remove_first_idx, remove_last_idx + 1,
                         idx_limit - remove_last_idx - 1)
    IN  /\ used_records' = used_records - count
        /\ recs' = SubSeq(moved, 1, used_records - count)    \* mail_index_truncate()

\* mail_index_expunge_record_range(): first_rec, last_rec given by zero-based index.
MailIndexExpungeRecordRange(first_idx, last_idx) ==
    /\ first_idx <= last_idx                     \* i_assert(first_idx <= last_idx)
    /\ last_idx < MAIL_INDEX_RECORD_COUNT        \* i_assert(last_idx < idx_limit)
    /\ messages_count' = messages_count - (last_idx - first_idx + 1)
    /\ compress(first_idx, last_idx)
    /\ idx_op' = [op |-> "expunge", first_idx |-> first_idx, last_idx |-> last_idx,
                  old |-> recs,
                  changes |-> [i \in first_idx..last_idx |->
                                  <<recs[i + 1].msg_flags, 0>>]]
    /\ UNCHANGED <<savevars, authvars>>

(***************************************************************************)
(*                      Transactional maildir save                         *)
(***************************************************************************)

\* Bounds of the save model.
MaxTxn == 2          \* transactions of SpecSave
MaxSerialTxn == 3    \* transactions of SpecSaveSerial
MaxMsgs == 2         \* save_init calls per transaction
MaxChunks == 1       \* successful save_continue calls per message
MaxExt == 1          \* files delivered by other programs

Txns == 1..(IF MaxTxn > MaxSerialTxn THEN MaxTxn ELSE MaxSerialTxn)

\* File names: a unique basename, and for cur/ a flag-encoded suffix.
Name(base, suffix) == [base |-> base, suffix |-> suffix]
NullName == Name(0, "NULL")

\* Directories map names to files; a file is named by its inode, 0 for a
\* file some other program delivered.
DirHas(dir, name) == \E e \in dir : e[1] = name
DirLink(dir, name, ino) == dir \cup {<<name, ino>>}
DirUnlink(dir, name) == {e \in dir : e[1] # name}
ExtIno == 0

MAIL_RECENT == "RECENT"
MAIL_SEEN == "SEEN"
FlagSets == SUBSET {MAIL_RECENT, MAIL_SEEN}
NoDate == -1                  \* (time_t)-1
ReceivedDates == {NoDate, 1}

SyscallFailures == {"ok", "utime", "fsync", "close"}

NoStream == [open |-> FALSE, stream_errno |-> "0"]
NoCtx == [created |-> FALSE, files |-> << >>, fd |-> -1, output |-> NoStream,
          failed |-> FALSE, seq |-> 0, received_date |-> NoDate]

\* maildir_transaction_save_init(): the zeroed context of a transaction.
maildir_transaction_save_init == [NoCtx EXCEPT !.created = TRUE, !.fd = 0]

\* maildir_create_tmp() (maildir-unique-filename generator): the basename of
\* the k-th temp file of transaction t; also used as its descriptor and inode.
maildir_create_tmp(t, k) == t * 10 + k

\* maildir_filename_set_flags(fname, flags, NULL): RECENT has no letter.
maildir_filename_set_flags(base, mail_flags) ==
    Name(base, IF MAIL_SEEN \in mail_flags THEN ":2,S" ELSE ":2,")

\* maildir_save_init(): mail_flags = (flags & ~MAIL_RECENT) | keep_recent.
save_mail_flags(flags) ==
    (flags \ {MAIL_RECENT}) \cup (IF keep_recent THEN {MAIL_RECENT} ELSE {})

\* maildir_save_init(): dest_fname, NULL when the file goes to new/.
save_dest_fname(base, mail_flags) ==
    IF mail_flags = {MAIL_RECENT} THEN NullName
    ELSE maildir_filename_set_flags(base, mail_flags)

\* mail_index_append() + mail_index_update_flags(): a placeholder record with
\* no UID at the end of the index transaction; its sequence is its position.
mail_index_append(trans, base, mail_flags) ==
    Append(trans, [msg |-> base, flags |-> mail_flags, uid |-> 0])

\* What the caller knows of a message: the temp file save_init made for it
\* (0: none) and what save_finish or save_cancel returned for it.
NoMsg == [base |-> 0, finish |-> "none"]
NoTxn == [state |-> "open", pc |-> "idle", msgs |-> << >>, written |-> 0]

SaveIdle ==
    /\ save_ctx = [t \in Txns |-> NoCtx]
    /\ index_trans = [t \in Txns |-> << >>]
    /\ txn = [t \in Txns |-> NoTxn]
    /\ tmpdir = {}
    /\ newdir = {}
    /\ curdir = {}
    /\ uidlist = [next_uid |-> 1, recs |-> << >>]
    /\ keep_recent = FALSE
    /\ commits = << >>
    /\ save_ret = [call |-> "none", t |-> 0, ret |-> 0]

SaveInitState ==
    /\ save_ctx = [t \in Txns |-> NoCtx]
    /\ index_trans = [t \in Txns |-> << >>]
    /\ txn = [t \in Txns |-> NoTxn]
    /\ tmpdir = {}
    /\ newdir = {}
    /\ curdir = {}
    /\ uidlist = [next_uid |-> 1, recs |-> << >>]
    /\ keep_recent \in BOOLEAN
    /\ commits = << >>
    /\ save_ret = [call |-> "none", t |-> 0, ret |-> 0]

\* Transactions are taken one after the other: the staging calls of a
\* transaction touch only its own context, index transaction and temp files,
\* and commits are serialized by the UID-list lock.
PriorTxnsEnded(t) == \A u \in Txns : u < t => txn[u].state # "open"

\* The context save_init works on: created on the first call.
CtxOf(t) == IF save_ctx[t].created THEN save_ctx[t] ELSE maildir_transaction_save_init

\* maildir_save_init() with the new record put at the end of ctx->files.
files_append(mf, files) == files \o <<mf>>

\* maildir_save_init(): mf->next = ctx->files; ctx->files = mf.
files_prepend(mf, files) == <<mf>> \o files

\* maildir_save_init()
MaildirSaveInit(t, flags, received_date, create_ok) ==
    LET ctx == CtxOf(t)
        k == Len(txn[t].msgs) + 1
        base == maildir_create_tmp(t, k)
        mail_flags == save_mail_flags(flags)
        mf == [basename |-> Name(base, ""), dest |-> save_dest_fname(base, mail_flags)]
    IN  /\ txn[t].state = "open"
        /\ PriorTxnsEnded(t)
        /\ txn[t].pc = "idle"
        /\ k <= MaxMsgs
        /\ IF ~create_ok
           THEN \* tmp file creation failed
                /\ save_ctx' = [save_ctx EXCEPT ![t] =
                                  [ctx EXCEPT !.fd = -1, !.failed = TRUE]]
                /\ txn' = [txn EXCEPT ![t].pc = "saving",
                                      ![t].msgs = Append(@, NoMsg)]
                /\ UNCHANGED <<tmpdir, index_trans>>
           ELSE /\ tmpdir' = DirLink(tmpdir, Name(base, ""), base)
                /\ index_trans' = [index_trans EXCEPT ![t] =
                                      mail_index_append(@, base, mail_flags)]
                /\ save_ctx' = [save_ctx EXCEPT ![t] =
                      [ctx EXCEPT !.fd = base,
                                  !.received_date = received_date,
                                  !.output = [open |-> TRUE, stream_errno |-> "0"],
                                  !.files = files_prepend(mf, ctx.files),
                                  !.seq = Len(index_trans[t]) + 1,
                                  !.failed = FALSE]]
                /\ txn' = [txn EXCEPT ![t].pc = "saving",
                                      ![t].written = 0,
                                      ![t].msgs = Append(@, [NoMsg EXCEPT !.base = base])]
        /\ save_ret' = [call |-> "init", t |-> t, ret |-> 0]
        /\ UNCHANGED <<newdir, curdir, uidlist, keep_recent, commits>>
        /\ UNCHANGED <<idxvars, authvars>>

\* maildir_save_continue() without its test of ctx->failed.
MaildirSaveContinueUnchecked(t, send) ==
    LET ctx == save_ctx[t]
    IN  /\ txn[t].state = "open"
        /\ txn[t].pc = "saving" \/ ctx.failed
        /\ IF send # "0"
           THEN /\ save_ctx' = [save_ctx EXCEPT ![t].failed = TRUE,
                                                ![t].output.stream_errno = send]
                /\ save_ret' = [call |-> "continue", t |-> t, ret |-> -1]
                /\ UNCHANGED txn
           ELSE /\ txn[t].written < MaxChunks
                /\ txn' = [txn EXCEPT ![t].written = @ + 1]
                /\ save_ret' = [call |-> "continue", t |-> t, ret |-> 0]
                /\ UNCHANGED save_ctx
        /\ UNCHANGED <<index_trans, tmpdir, newdir, curdir, uidlist, keep_recent, commits>>
        /\ UNCHANGED <<idxvars, authvars>>

\* maildir_save_continue(): send is the outcome of o_stream_send_istream().  The
\* call reads ctx->output unless ctx->failed is set: it is made while a
\* message is being saved, or on a failed context.
MaildirSaveContinue(t, send) ==
    LET ctx == save_ctx[t]
        k == Len(txn[t].msgs)
    IN  /\ txn[t].state = "open"
        /\ txn[t].pc = "saving" \/ ctx.failed
        /\ IF ctx.failed
           THEN /\ save_ret' = [call |-> "continue", t |-> t, ret |-> -1]
                /\ UNCHANGED <<save_ctx, txn>>
           ELSE IF send # "0"
           THEN /\ save_ctx' = [save_ctx EXCEPT ![t].failed = TRUE,
                                                ![t].output.stream_errno = send]
                /\ save_ret' = [call |-> "continue", t |-> t, ret |-> -1]
                /\ UNCHANGED txn
           ELSE /\ txn[t].written < MaxChunks
                /\ txn' = [txn EXCEPT ![t].written = @ + 1]
                /\ save_ret' = [call |-> "continue", t |-> t, ret |-> 0]
                /\ UNCHANGED save_ctx
        /\ UNCHANGED <<index_trans, tmpdir, newdir, curdir, uidlist, keep_recent, commits>>
        /\ UNCHANGED <<idxvars, authvars>>

\* The body of maildir_save_finish() run on context ctx (save_cancel runs it
\* with failed already set).  io: which of utime(), fsync(), close() fails
\* ("ok": none); mail_r: whether the caller asks for the mail; next_ok: the
\* outcome of index_mail_next().
save_finish(t, call, ctx, io, mail_r, next_ok) ==
    LET k == Len(txn[t].msgs)
        saving == txn[t].pc = "saving"
        failed == \/ ctx.failed
                  \/ (ctx.received_date # NoDate /\ io = "utime")
                  \/ io = "fsync"
                  \/ io = "close"
        \* o_stream_unref(), close(): the stream is gone and fd = -1.  received_date
        \* is not read again before the next save_init sets it: forgotten here.
        closed == [ctx EXCEPT !.output = NoStream, !.fd = -1, !.failed = failed,
                              !.received_date = NoDate]
    IN  IF ctx.failed /\ ctx.fd = -1
        THEN \* tmp file creation failed
             /\ save_ctx' = [save_ctx EXCEPT ![t] = ctx]
             /\ txn' = [txn EXCEPT ![t].pc = "idle",
                                   ![t].msgs = IF saving
                                               THEN [@ EXCEPT ![k].finish = "fail"]
                                               ELSE @]
             /\ save_ret' = [call |-> call, t |-> t, ret |-> -1]
             /\ UNCHANGED tmpdir
        ELSE /\ saving            \* ctx->output and ctx->files are dereferenced
             /\ IF failed
                THEN \* delete the tmp file, drop the head of the list
                     /\ tmpdir' = DirUnlink(tmpdir, Head(ctx.files).basename)
                     /\ save_ctx' = [save_ctx EXCEPT ![t] =
                                        [closed EXCEPT !.files = Tail(ctx.files)]]
                     /\ txn' = [txn EXCEPT ![t].pc = "idle",
                                           ![t].msgs[k].finish = "fail"]
                     /\ save_ret' = [call |-> call, t |-> t, ret |-> -1]
                ELSE IF mail_r /\ ~next_ok
                THEN \* index_mail_next() < 0
                     /\ save_ctx' = [save_ctx EXCEPT ![t] = closed]
                     /\ txn' = [txn EXCEPT ![t].pc = "idle",
                                           ![t].msgs[k].finish = "fail"]
                     /\ save_ret' = [call |-> call, t |-> t, ret |-> -1]
                     /\ UNCHANGED tmpdir
                ELSE /\ save_ctx' = [save_ctx EXCEPT ![t] = closed]
                     /\ txn' = [txn EXCEPT ![t].pc = "idle",
                                           ![t].msgs[k].finish = "ok"]
                     /\ save_ret' = [call |-> call, t |-> t, ret |-> 0]
                     /\ UNCHANGED tmpdir

\* maildir_save_finish()
MaildirSaveFinish(t, io, mail_r, next_ok) ==
    /\ txn[t].state = "open"
    /\ save_ctx[t].created
    /\ mail_r \/ next_ok
    /\ save_finish(t, "finish", save_ctx[t], io, mail_r, next_ok)
    /\ UNCHANGED <<index_trans, newdir, curdir, uidlist, keep_recent, commits>>
    /\ UNCHANGED <<idxvars, authvars>>

\* maildir_save_cancel(): failed = TRUE, then save_finish(ctx, NULL).
MaildirSaveCancel(t, io) ==
    /\ txn[t].state = "open"
    /\ save_ctx[t].created
    /\ save_finish(t, "cancel", [save_ctx[t] EXCEPT !.failed = TRUE], io, FALSE, TRUE)
    /\ UNCHANGED <<index_trans, newdir, curdir, uidlist, keep_recent, commits>>
    /\ UNCHANGED <<idxvars, authvars>>

\* The files of the list, head first, as the commit loop meets them.
DestName(mf) == IF mf.dest # NullName THEN mf.dest ELSE mf.basename
DestIsCur(mf) == mf.dest # NullName

\* link(tmp_path, new_path) cannot succeed when new_path exists.
CanLink(mf) ==
    IF DestIsCur(mf) THEN ~DirHas(curdir, mf.dest) ELSE ~DirHas(newdir, mf.basename)

InoOf(dir, name) == (CHOOSE e \in dir : e[1] = name)[2]

RECURSIVE LinkAll(_, _, _, _)
\* maildir_file_move()'s link() for every file of `moved`: into cur/ when
\* dest is set (cur = TRUE selects that directory), else into new/.
LinkAll(dir, moved, cur, tmp) ==
    IF moved = << >> THEN dir
    ELSE LET mf == Head(moved)
         IN  LinkAll(IF DestIsCur(mf) = cur
                     THEN DirLink(dir, DestName(mf), InoOf(tmp, mf.basename))
                     ELSE dir,
                     Tail(moved), cur, tmp)

RECURSIVE UnlinkAll(_, _)
UnlinkAll(dir, names) ==
    IF names = << >> THEN dir ELSE UnlinkAll(DirUnlink(dir, Head(names)), Tail(names))

SeqMap(Op(_), sq) == [i \in 1..Len(sq) |-> Op(sq[i])]
SelectCur(files) == SelectSeq(files, DestIsCur)
NotCur(mf) == ~DestIsCur(mf)
SelectNew(files) == SelectSeq(files, NotCur)
Basename(mf) == mf.basename
FileIno(mf) == mf.basename.base

\* maildir_uidlist_get_next_uid()
maildir_uidlist_get_next_uid(ul) == ul.next_uid

\* mail_index_append_assign_uids(): the placeholders get first_uid, first_uid
\* + 1, ... in the order they were appended; *next_uid_r is the UID after them.
mail_index_append_assign_uids(trans, first_uid) ==
    [i \in 1..Len(trans) |-> [trans[i] EXCEPT !.uid = first_uid + i - 1]]
assigned_next_uid(trans, first_uid) == first_uid + Len(trans)

\* maildir_uidlist_sync_next() .. _sync_deinit(): the names given to the sync
\* session get the next UIDs in the order given, and next_uid moves past them.
maildir_uidlist_sync(ul, fnames) ==
    [next_uid |-> ul.next_uid + Len(fnames),
     recs |-> ul.recs \o [i \in 1..Len(fnames) |->
                            [fname |-> fnames[i], uid |-> ul.next_uid + i - 1]]]

\* i_assert(maildir_uidlist_get_next_uid(uidlist) == last_uid) compiled out.
commit_assert_disabled(ul, last_uid) == TRUE

\* i_assert(maildir_uidlist_get_next_uid(ctx->ibox->uidlist) == last_uid)
commit_assert(ul, last_uid) == maildir_uidlist_get_next_uid(ul) = last_uid

\* The first UID the commit hands to the index transaction.
commit_first_uid(ul) == maildir_uidlist_get_next_uid(ul)

\* The order in which the commit loop visits the staged files.
commit_order(files) == files

\* maildir_transaction_save_rollback(): unlink the temp files of the list.
save_rollback(tmp, files) == UnlinkAll(tmp, SeqMap(Basename, files))

\* maildir_save_commit_abort() whose loop also takes the file at pos.
commit_abort_new_through(dir, files, pos) ==
    UnlinkAll(dir, SeqMap(DestName,
                          SelectNew(SubSeq(files, 1, IF pos > Len(files)
                                                     THEN Len(files) ELSE pos))))

\* maildir_save_commit_abort(ctx, pos): unlink the destinations of the files
\* before pos (pos = Len(files) + 1: all of them), then roll back from pos.
commit_abort_new(dir, files, pos) ==
    UnlinkAll(dir, SeqMap(DestName, SelectNew(SubSeq(files, 1, pos - 1))))
commit_abort_cur(dir, files, pos) ==
    UnlinkAll(dir, SeqMap(DestName, SelectCur(SubSeq(files, 1, pos - 1))))
commit_abort_tmp(tmp, files, pos) ==
    save_rollback(tmp, SubSeq(files, pos, Len(files)))

StagedOk(msgs) == SelectSeq(msgs, LAMBDA m : m.finish = "ok")
MsgBase(m) == m.base

EndTxn(t, state) ==
    /\ txn' = [txn EXCEPT ![t] = [NoTxn EXCEPT !.state = state]]
    /\ save_ctx' = [save_ctx EXCEPT ![t] = NoCtx]        \* pool_unref(ctx->pool)
    /\ index_trans' = [index_trans EXCEPT ![t] = << >>]

\* The log entry of a commit: what it was given (the messages whose save_finish
\* succeeded, in save_init order) and what it did (the UIDs the index
\* transaction assigned, the files in the order linked, the names in the order
\* given to the UID list, the UID-list records written).
PlaceholderUid(r) == [msg |-> r.msg, uid |-> r.uid]
CommitLog(t, result, first_uid, trans, linked, appended, ul) ==
    [t |-> t, result |-> result, first_uid |-> first_uid,
     next_uid |-> uidlist.next_uid,
     staged_ok |-> SeqMap(MsgBase, StagedOk(txn[t].msgs)),
     index_uids |-> SeqMap(PlaceholderUid, trans),
     linked |-> SeqMap(FileIno, linked),
     appended |-> appended,
     ul_recs |-> SubSeq(ul.recs, Len(uidlist.recs) + 1, Len(ul.recs))]
FailedLog(t) ==
    [t |-> t, result |-> "fail", first_uid |-> 0, next_uid |-> 0, staged_ok |-> << >>,
     index_uids |-> << >>, linked |-> << >>, appended |-> << >>, ul_recs |-> << >>]

\* maildir_transaction_save_commit().  lock_ret: maildir_uidlist_lock();
\* sync_ok: maildir_sync_index(); fail_at, fail_in: the file of the list at
\* which the loop fails (0: none) and whether in maildir_file_move ("link") or
\* in maildir_uidlist_sync_next ("sync"); deinit_ok: maildir_uidlist_sync_deinit().
MaildirTransactionSaveCommit(t, lock_ret, sync_ok, fail_at, fail_in, deinit_ok) ==
    LET ctx == save_ctx[t]
        files == commit_order(ctx.files)
        n == Len(files)
        first_uid == commit_first_uid(uidlist)
        trans == mail_index_append_assign_uids(index_trans[t], first_uid)
        last_uid == assigned_next_uid(index_trans[t], first_uid)
        \* the files link() succeeded for, and those sync_next() took
        linked == SubSeq(files, 1, IF fail_at = 0 THEN n
                                   ELSE IF fail_in = "sync" THEN fail_at
                                   ELSE fail_at - 1)
        synced == SubSeq(files, 1, IF fail_at = 0 THEN n ELSE fail_at - 1)
        \* every maildir_file_move() unlinks its temp file, link() failed or not
        moved_tmp == UnlinkAll(tmpdir, SeqMap(Basename,
                         SubSeq(files, 1, IF fail_at = 0 THEN n ELSE fail_at)))
        moved_new == LinkAll(newdir, linked, FALSE, tmpdir)
        moved_cur == LinkAll(curdir, linked, TRUE, tmpdir)
        ul == maildir_uidlist_sync(uidlist, SeqMap(DestName, synced))
    IN  /\ txn[t].state = "open"
        /\ ctx.created
        /\ ~ctx.output.open                      \* i_assert(ctx->output == NULL)
        /\ txn[t].pc = "idle"
        /\ fail_at <= n
        /\ IF lock_ret <= 0 \/ ~sync_ok
           THEN \* maildir_save_commit_abort(ctx, ctx->files)
                /\ fail_at = 0 /\ fail_in = "link" /\ deinit_ok
                /\ sync_ok \/ lock_ret > 0
                /\ tmpdir' = commit_abort_tmp(tmpdir, files, 1)
                /\ newdir' = commit_abort_new(newdir, files, 1)
                /\ curdir' = commit_abort_cur(curdir, files, 1)
                /\ commits' = Append(commits, FailedLog(t))
                /\ EndTxn(t, "failed")
                /\ save_ret' = [call |-> "commit", t |-> t, ret |-> -1]
                /\ UNCHANGED uidlist
           ELSE /\ \A i \in 1..Len(linked) : CanLink(linked[i])
                /\ IF fail_at # 0
                   THEN \* maildir_save_commit_abort(ctx, mf)
                        /\ deinit_ok
                        /\ tmpdir' = commit_abort_tmp(moved_tmp, files, fail_at)
                        /\ newdir' = commit_abort_new(moved_new, files, fail_at)
                        /\ curdir' = commit_abort_cur(moved_cur, files, fail_at)
                        /\ commits' = Append(commits, FailedLog(t))
                        /\ EndTxn(t, "failed")
                        /\ save_ret' = [call |-> "commit", t |-> t, ret |-> -1]
                        /\ UNCHANGED uidlist
                   ELSE IF ~deinit_ok
                   THEN \* maildir_save_commit_abort(ctx, NULL)
                        /\ fail_in = "link"
                        /\ tmpdir' = commit_abort_tmp(moved_tmp, files, n + 1)
                        /\ newdir' = commit_abort_new(moved_new, files, n + 1)
                        /\ curdir' = commit_abort_cur(moved_cur, files, n + 1)
                        /\ commits' = Append(commits, FailedLog(t))
                        /\ EndTxn(t, "failed")
                        /\ save_ret' = [call |-> "commit", t |-> t, ret |-> -1]
                        /\ UNCHANGED uidlist
                   ELSE /\ fail_in = "link"
                        /\ tmpdir' = moved_tmp
                        /\ newdir' = moved_new
                        /\ curdir' = moved_cur
                        /\ uidlist' = ul
                        \* i_assert(maildir_uidlist_get_next_uid(uidlist) == last_uid)
                        /\ LET ok == commit_assert(ul, last_uid)
                           IN  /\ commits' = Append(commits,
                                      CommitLog(t, IF ok THEN "ok" ELSE "panic",
                                                first_uid, trans, linked,
                                                SeqMap(DestName, synced), ul))
                               /\ EndTxn(t, IF ok THEN "committed" ELSE "panic")
                               /\ save_ret' = [call |-> "commit", t |-> t,
                                               ret |-> IF ok THEN 0 ELSE -2]
        /\ UNCHANGED keep_recent
        /\ UNCHANGED <<idxvars, authvars>>

\* maildir_transaction_save_rollback()
MaildirTransactionSaveRollback(t) ==
    /\ txn[t].state = "open"
    /\ save_ctx[t].created
    /\ ~save_ctx[t].output.open                  \* i_assert(ctx->output == NULL)
    /\ txn[t].pc = "idle"
    /\ tmpdir' = save_rollback(tmpdir, save_ctx[t].files)
    /\ EndTxn(t, "rolledback")
    /\ save_ret' = [call |-> "rollback", t |-> t, ret |-> 0]
    /\ UNCHANGED <<newdir, curdir, uidlist, keep_recent, commits>>
    /\ UNCHANGED <<idxvars, authvars>>

\* Another delivery agent puts a file into new/ or cur/ under the name a
\* staged message is going to take.
ExternalFiles == {e \in newdir \cup curdir : e[2] = ExtIno}

ExternalDelivery(t, i) ==
    /\ txn[t].state = "open"
    /\ i \in 1..Len(save_ctx[t].files)
    /\ Cardinality(ExternalFiles) < MaxExt
    /\ CanLink(save_ctx[t].files[i])
    /\ LET mf == save_ctx[t].files[i]
       IN  IF DestIsCur(mf)
           THEN curdir' = DirLink(curdir, mf.dest, ExtIno) /\ UNCHANGED newdir
           ELSE newdir' = DirLink(newdir, mf.basename, ExtIno) /\ UNCHANGED curdir
    /\ UNCHANGED <<save_ctx, index_trans, txn, tmpdir, uidlist, keep_recent,
                   commits, save_ret>>
    /\ UNCHANGED <<idxvars, authvars>>

(***************************************************************************)
(*                          Auth multiplexer                               *)
(***************************************************************************)

\* Bounds of the auth model.
MaxConns == 2        \* struct auth_connection objects allocated at one time
MaxReqs == 2         \* struct auth_request objects allocated at one time
IdBits == 2          \* width of request_id_counter (unsigned int), scaled down
MAX_INBUF_SIZE == 6  \* the input stream's buffer limit, in words, scaled down

ConnIds == 1..MaxConns
ReqIds == 1..MaxReqs
IdMod == 2 ^ IdBits
RequestIds == 0..(IdMod - 1)
Paths == {"auth-a", "auth-b"}              \* the sockets of the directory

\* sizeof(struct auth_login_handshake_output), sizeof(struct auth_login_reply),
\* in 32-bit words: { pid, auth_mechanisms } and { id, result, data_size }.
SizeofHandshake == 2
SizeofReply == 3
AUTH_LOGIN_RESULT_CONTINUE == 1
Results == 1..3                            \* CONTINUE, SUCCESS, FAILURE

\* enum auth_mech: one bit per mechanism; a mechanism set is a bit mask.
AuthMechs == {1, 2}
BitSet(w) == {b \in AuthMechs : (w \div b) % 2 = 1}
BitAnd(a, b) == (IF 1 \in BitSet(a) \cap BitSet(b) THEN 1 ELSE 0)
                + (IF 2 \in BitSet(a) \cap BitSet(b) THEN 2 ELSE 0)
BitOr(a, b) == (IF 1 \in BitSet(a) \cup BitSet(b) THEN 1 ELSE 0)
               + (IF 2 \in BitSet(a) \cup BitSet(b) THEN 2 ELSE 0)

NoReply == [id |-> 0, result |-> 0, data_size |-> 0]
EmptyHash == [k \in RequestIds |-> 0]

\* A connection slot that holds no object.
NoConn == [alloc |-> FALSE, refcount |-> 0, path |-> "", fd |-> -1,
           requests |-> EmptyHash, available_auth_mechs |-> 0,
           handshake_received |-> FALSE, reply_received |-> FALSE,
           reply |-> NoReply, input |-> << >>]

\* A request slot that holds no object.  known: the caller has the request
\* pointer (it learns it from a callback); held: the caller has taken a
\* reference with auth_request_ref; nulls: callbacks made with a NULL reply.
NoRequest == [alloc |-> FALSE, conn |-> 0, id |-> 0, known |-> FALSE,
              held |-> FALSE, nulls |-> 0]

\* No reply dispatched; else the connection, the reply auth_handle_reply was
\* given and the request its id named in the table (0: none, and then only the
\* id of the reply is kept).
NoDispatch == [done |-> FALSE, conn |-> 0, reply |-> NoReply, req |-> 0]

NoEv == [op |-> "none", mech |-> 0, ret |-> FALSE, conn |-> 0,
         error |-> "", registry |-> << >>, cache |-> 0,
         dispatch |-> NoDispatch, again |-> FALSE, cbs |-> << >>, destroyed |-> << >>]

\* The state the functions below work on.  cbs: the callbacks made during the
\* call, in order (nth: how many times the request has now been called back
\* with NULL); destroyed: the connections torn down during the call, each
\* with the requests its table held when auth_connection_destroy began;
\* again: auth_connection_destroy met a connection already destroyed.
AuthState ==
    [auth_connections |-> auth_connections, conn |-> conn, request |-> request,
     available_auth_mechs |-> available_auth_mechs, auth_reconnect |-> auth_reconnect,
     request_id_counter |-> request_id_counter,
     auth_waiting_handshake_count |-> auth_waiting_handshake_count,
     cbs |-> << >>, destroyed |-> << >>, again |-> FALSE, dispatch |-> NoDispatch]

SetAuthState(s) ==
    /\ auth_connections' = s.auth_connections
    /\ conn' = s.conn
    /\ request' = s.request
    /\ available_auth_mechs' = s.available_auth_mechs
    /\ auth_reconnect' = s.auth_reconnect
    /\ request_id_counter' = s.request_id_counter
    /\ auth_waiting_handshake_count' = s.auth_waiting_handshake_count

AuthIdle ==
    /\ auth_connections = << >>
    /\ conn = [c \in ConnIds |-> NoConn]
    /\ request = [r \in ReqIds |-> NoRequest]
    /\ available_auth_mechs = 0
    /\ auth_reconnect = FALSE
    /\ request_id_counter = 0
    /\ auth_waiting_handshake_count = 0
    /\ to = "none"
    /\ auth_ev = NoEv

\* The values of a request table, and a slot free for a new object (0: none).
HashValues(tbl) == {tbl[k] : k \in RequestIds} \ {0}
FreeConns(s) ==
    {c \in ConnIds : /\ ~s.conn[c].alloc
                     /\ \A r \in ReqIds : ~(s.request[r].alloc /\ s.request[r].conn = c)}
FreeReqs(s) == {r \in ReqIds : ~s.request[r].alloc}
MinSlot(S) == CHOOSE m \in S : \A x \in S : m <= x

\* auth_connection_find(): the registry connection with this path, 0 for NULL.
auth_connection_find(s, path) ==
    LET found == SelectSeq(s.auth_connections, LAMBDA c : s.conn[c].path = path)
    IN  IF found = << >> THEN 0 ELSE Head(found)

\* request_hash_remove(): request->callback(request, NULL, NULL, context).  A
\* caller that holds no reference forgets the request.
request_hash_remove(s, r) ==
    [s EXCEPT !.request[r].nulls = @ + 1,
              !.request[r].known = s.request[r].held,
              !.cbs = Append(@, [req |-> r, null |-> TRUE, result |-> 0,
                                 nth |-> s.request[r].nulls + 1])]

\* hash_foreach(conn->requests, request_hash_remove, NULL), keys ascending.
RECURSIVE HashForeachRemove(_, _, _)
HashForeachRemove(s, tbl, k) ==
    IF k >= IdMod THEN s
    ELSE HashForeachRemove(IF tbl[k] # 0 THEN request_hash_remove(s, tbl[k]) ELSE s,
                           tbl, k + 1)

\* auth_connection_unref(): at zero, request_hash_destroy frees the requests of
\* the table, then the connection is freed.
auth_connection_unref(s, c) ==
    IF s.conn[c].refcount - 1 > 0
    THEN [s EXCEPT !.conn[c].refcount = @ - 1]
    ELSE [s EXCEPT !.conn[c] = NoConn,
                   !.request = [r \in ReqIds |->
                                   IF r \in HashValues(s.conn[c].requests)
                                   THEN NoRequest ELSE s.request[r]]]

RemoveConn(list, c) == SelectSeq(list, LAMBDA x : x # c)

\* auth_connection_destroy() past its fd == -1 test: unlink from the registry,
\* close, call back every request of the table with NULL, drop the registry's
\* reference.  Of a destroyed connection only fd, refcount and the request
\* table are read again (it is off the registry and its io is removed): its
\* other fields are forgotten here.
auth_connection_teardown(s, c) ==
    LET s1 == [s EXCEPT !.auth_connections = RemoveConn(@, c),
                        !.auth_waiting_handshake_count =
                            IF ~s.conn[c].handshake_received THEN @ - 1 ELSE @,
                        !.conn[c].fd = -1,
                        !.conn[c].path = "",
                        !.conn[c].available_auth_mechs = 0,
                        !.conn[c].handshake_received = FALSE,
                        !.conn[c].input = << >>,
                        !.conn[c].reply_received = FALSE,
                        !.conn[c].reply = NoReply,
                        !.destroyed = Append(@, [conn |-> c,
                                                 table |-> HashValues(s.conn[c].requests)])]
    IN  auth_connection_unref(HashForeachRemove(s1, s.conn[c].requests, 0), c)

\* auth_connection_destroy() without its fd == -1 test.
auth_connection_destroy_again(s, c) == auth_connection_teardown(s, c)

\* auth_connection_destroy()
auth_connection_destroy(s, c) ==
    IF s.conn[c].fd = -1
    THEN [s EXCEPT !.again = TRUE]
    ELSE auth_connection_teardown(s, c)

\* auth_connection_new(): outcome "connect_fail" (net_connect_unix() == -1),
\* "send_fail" (o_stream_send() of the handshake < 0) or "ok".
auth_connection_new(s, path, outcome) ==
    IF outcome = "connect_fail"
    THEN [s EXCEPT !.auth_reconnect = TRUE]
    ELSE LET c == MinSlot(FreeConns(s))
             s1 == [s EXCEPT !.conn[c] = [NoConn EXCEPT !.alloc = TRUE, !.refcount = 1,
                                                        !.path = path, !.fd = c],
                             !.auth_connections = <<c>> \o @,
                             !.auth_waiting_handshake_count = @ + 1]
         IN  IF outcome = "send_fail" THEN auth_connection_destroy(s1, c) ELSE s1

\* The readdir() loop of auth_connect_missing() over the sockets listed.
RECURSIVE ScanDir(_, _)
ScanDir(s, listing) ==
    IF listing = << >> THEN s
    ELSE LET e == Head(listing)
         IN  IF auth_connection_find(s, e.path) # 0
             THEN ScanDir(s, Tail(listing))          \* already connected
             ELSE LET s1 == auth_connection_new(s, e.path, e.outcome)
                  IN  ScanDir(IF e.outcome = "ok"
                              THEN [s1 EXCEPT !.auth_reconnect = FALSE] ELSE s1,
                              Tail(listing))

\* auth_connect_missing(): opendir_ok is the outcome of opendir("."), listing
\* the sockets readdir() returns, each with the outcome of connecting to it.
auth_connect_missing(s, opendir_ok, listing) ==
    LET s0 == [s EXCEPT !.auth_reconnect = TRUE]
    IN  IF ~opendir_ok THEN s0 ELSE ScanDir(s0, listing)

ConnectOutcomes == {"ok", "connect_fail", "send_fail"}
DirEntry(path, outcome) == [path |-> path, outcome |-> outcome]
Listings(paths) ==
    {<< >>}
    \cup {<<DirEntry(p, o)>> : p \in paths, o \in ConnectOutcomes}
    \cup UNION {{<<DirEntry(p, o), DirEntry(q, u)>> :
                    q \in paths \ {p}, o \in {"ok", "connect_fail"},
                    u \in {"ok", "connect_fail"}} :
                 p \in paths}

\* The scan finds a free slot for every connection object it allocates.
ScanFits(s, listing) == Len(listing) <= Cardinality(FreeConns(s))

\* update_available_auth_mechs(): the union over the registry.
RECURSIVE OrMechs(_, _)
OrMechs(s, list) ==
    IF list = << >> THEN 0
    ELSE BitOr(s.conn[Head(list)].available_auth_mechs, OrMechs(s, Tail(list)))

\* update_available_auth_mechs() without available_auth_mechs = 0.
update_available_auth_mechs_added(s) ==
    [s EXCEPT !.available_auth_mechs = BitOr(@, OrMechs(s, s.auth_connections))]

update_available_auth_mechs(s) ==
    [s EXCEPT !.available_auth_mechs = OrMechs(s, s.auth_connections)]

\* auth_handle_handshake() that takes the connection off the count of waiting
\* handshakes before it destroys it.
auth_handle_handshake_counted_twice(s, c, pid, mechs) ==
    IF pid = 0
    THEN auth_connection_destroy([s EXCEPT !.auth_waiting_handshake_count = @ - 1], c)
    ELSE update_available_auth_mechs(
             [s EXCEPT !.conn[c].available_auth_mechs = mechs,
                       !.conn[c].handshake_received = TRUE,
                       !.auth_waiting_handshake_count = @ - 1])

\* auth_handle_handshake()
auth_handle_handshake(s, c, pid, mechs) ==
    IF pid = 0
    THEN auth_connection_destroy(s, c)
    ELSE update_available_auth_mechs(
             [s EXCEPT !.conn[c].available_auth_mechs = mechs,
                       !.conn[c].handshake_received = TRUE,
                       !.auth_waiting_handshake_count = @ - 1])

\* hash_lookup(conn->requests, id): 0 for NULL.
hash_lookup(tbl, id) == IF id \in RequestIds THEN tbl[id] ELSE 0

\* request->callback(request, reply, data, context): on CONTINUE the caller
\* keeps the request pointer for auth_continue_request / auth_abort_request.
reply_callback(s, r, reply) ==
    [s EXCEPT !.request[r].known = (reply.result = AUTH_LOGIN_RESULT_CONTINUE),
              !.cbs = Append(@, [req |-> r, null |-> FALSE, result |-> reply.result,
                                 nth |-> 0])]

\* auth_handle_reply() that destroys the connection on an unknown ID.
auth_handle_reply_strict(s, c, reply) ==
    LET r == hash_lookup(s.conn[c].requests, reply.id)
    IN  IF r = 0
        THEN auth_connection_destroy(s, c)
        ELSE LET s1 == reply_callback(s, r, reply)
             IN  IF reply.result # AUTH_LOGIN_RESULT_CONTINUE
                 THEN [s1 EXCEPT !.conn[c].requests[s.request[r].id] = 0,
                                 !.request[r] = NoRequest]
                 ELSE s1

\* auth_handle_reply() that retires the request on SUCCESS only.
auth_handle_reply_success_only(s, c, reply) ==
    LET r == hash_lookup(s.conn[c].requests, reply.id)
    IN  IF r = 0 THEN s
        ELSE LET s1 == reply_callback(s, r, reply)
             IN  IF reply.result = AUTH_LOGIN_RESULT_CONTINUE + 1
                 THEN [s1 EXCEPT !.conn[c].requests[s.request[r].id] = 0,
                                 !.request[r] = NoRequest]
                 ELSE s1

\* auth_handle_reply()
auth_handle_reply(s, c, reply) ==
    LET r == hash_lookup(s.conn[c].requests, reply.id)
    IN  IF r = 0
        THEN s                                   \* unknown ID: logged, nothing else
        ELSE LET s1 == reply_callback(s, r, reply)
             IN  IF reply.result # AUTH_LOGIN_RESULT_CONTINUE
                 THEN [s1 EXCEPT !.conn[c].requests[s.request[r].id] = 0,   \* hash_remove
                                 !.request[r] = NoRequest]                  \* i_free
                 ELSE s1

\* auth_connection_get(): space[c] is o_stream_have_space(conn->output, size) > 0.
\* Returns the connection (0 for NULL), *error and the state.
auth_connection_get(s, mech, space) ==
    LET adv == SelectSeq(s.auth_connections,
                         LAMBDA c : BitAnd(s.conn[c].available_auth_mechs, mech) # 0)
        free == SelectSeq(adv, LAMBDA c : space[c])
        found == adv # << >>
    IN  IF free # << >>
        THEN [conn |-> Head(free), error |-> "", s |-> s]
        ELSE IF ~found
        THEN IF BitAnd(s.available_auth_mechs, mech) = 0
             THEN [conn |-> 0, error |-> "unsupported", s |-> s]
             ELSE [conn |-> 0, error |-> "try again later",
                   s |-> [s EXCEPT !.auth_reconnect = TRUE]]
        ELSE [conn |-> 0, error |-> "busy", s |-> s]

\* request->id = ++request_id_counter without the test for zero.
next_request_id_unchecked(counter) == (counter + 1) % IdMod

\* if (request->id == 0) request->id = ++request_id_counter: the counter after
\* the id of a new request has been taken from it.
next_request_id(counter) ==
    LET id == (counter + 1) % IdMod
    IN  IF id = 0 THEN (id + 1) % IdMod ELSE id

\* What i_stream_read() can deliver in one call when nothing is pending: a
\* handshake frame (pid, mechanisms), a reply header (id, result, data_size),
\* a reply header with its word of payload, or the first word of a frame.
HandshakeFrames(mechs) == {<<pid, m>> : pid \in 0..1, m \in mechs}
ReplyFrames ==
    {<<id, result, 0>> : id \in 1..(IdMod - 1), result \in Results}
    \cup {<<1, result, 1>> : result \in Results}
    \cup {<<1, AUTH_LOGIN_RESULT_CONTINUE, MAX_INBUF_SIZE + 1>>}
ReadChunks(mechs) ==
    HandshakeFrames(mechs) \cup ReplyFrames \cup {<<1>>}
    \cup {f \o <<1>> : f \in {g \in ReplyFrames : g[3] = 1}}

\* Two replies without payload delivered by one i_stream_read() call.
BurstChunks ==
    {f \o g : f, g \in {<<id, result, 0>> : id \in 1..2, result \in 1..2}}

\* What it can deliver when part of a frame is buffered: one or two more words.
RestChunks == {<<1>>, <<1, 1>>}

\* The words of the input buffer from the n-th on (i_stream_skip of n - 1).
Skip(data, n) == SubSeq(data, n + 1, Len(data))

\* auth_input() after i_stream_read() returned > 0 with `data` buffered.
auth_input_data(s, c, data) ==
    LET cn == s.conn[c]
        size == Len(data)
    IN  IF ~cn.handshake_received
        THEN IF size = SizeofHandshake
             THEN auth_handle_handshake([s EXCEPT !.conn[c].input = << >>],
                                        c, data[1], data[2])
             ELSE IF size > SizeofHandshake
             THEN auth_connection_destroy(s, c)
             ELSE [s EXCEPT !.conn[c].input = data]
        ELSE IF ~cn.reply_received /\ size < SizeofReply
        THEN [s EXCEPT !.conn[c].input = data]
        ELSE LET reply == IF cn.reply_received THEN cn.reply
                          ELSE [id |-> data[1], result |-> data[2], data_size |-> data[3]]
                 rest == IF cn.reply_received THEN data ELSE Skip(data, SizeofReply)
             IN  IF Len(rest) < reply.data_size
                 THEN [s EXCEPT !.conn[c].reply = reply,
                                !.conn[c].reply_received = TRUE,
                                !.conn[c].input = rest]
                 ELSE \* we've got a full reply; conn->reply is not read again
                      \* before the next header overwrites it: forgotten here
                      LET s1 == [s EXCEPT !.conn[c].reply = NoReply,
                                          !.conn[c].reply_received = FALSE,
                                          !.conn[c].input = Skip(rest, reply.data_size),
                                          !.dispatch =
                                              IF hash_lookup(cn.requests, reply.id) = 0
                                              THEN [done |-> TRUE, conn |-> c, req |-> 0,
                                                    reply |-> [NoReply EXCEPT !.id = reply.id]]
                                              ELSE [done |-> TRUE, conn |-> c, reply |-> reply,
                                                    req |-> hash_lookup(cn.requests, reply.id)]]
                      IN  auth_handle_reply(s1, c, reply)

\* The record of an auth call.
Ev(op, s) ==
    [NoEv EXCEPT !.op = op, !.dispatch = s.dispatch, !.again = s.again,
                 !.cbs = s.cbs, !.destroyed = s.destroyed]

\* auth_connection_init()
AuthConnectionInit(opendir_ok, listing) ==
    /\ to = "none"
    /\ opendir_ok \/ listing = << >>
    /\ LET s0 == [AuthState EXCEPT !.auth_connections = << >>,
                                   !.request_id_counter = 0,
                                   !.auth_reconnect = FALSE,
                                   !.auth_waiting_handshake_count = 0]
           s == auth_connect_missing(s0, opendir_ok, listing)
       IN  /\ ScanFits(s0, listing)
           /\ SetAuthState(s)
           /\ auth_ev' = Ev("init", s)
    /\ to' = "added"                             \* timeout_add(1000, ...)
    /\ UNCHANGED <<idxvars, savevars>>

\* auth_connect_missing_timeout(): does nothing unless auth_reconnect is set.
AuthConnectMissingTimeout(opendir_ok, listing) ==
    /\ to = "added"
    /\ auth_reconnect
    /\ opendir_ok \/ listing = << >>
    /\ ScanFits(AuthState, listing)
    /\ LET s == auth_connect_missing(AuthState, opendir_ok, listing)
       IN  /\ SetAuthState(s)
           /\ auth_ev' = Ev("timeout", s)
    /\ UNCHANGED to
    /\ UNCHANGED <<idxvars, savevars>>

\* auth_input(): err: i_stream_read() returns -1; else it returns -2 when the
\* buffer is full, and otherwise appends `data` to the buffer.
AuthInput(c, err, data) ==
    /\ to = "added"
    /\ conn[c].alloc
    /\ conn[c].fd # -1                           \* io_add() .. io_remove()
    /\ IF conn[c].input # << >> \/ conn[c].reply_received
       THEN data \in RestChunks \cup {<< >>}
       ELSE data \in ReadChunks({1, 2, 3}) \cup BurstChunks \cup {<< >>}
    /\ LET full == Len(conn[c].input) >= MAX_INBUF_SIZE
           s == IF full
                THEN auth_connection_destroy(AuthState, c)
                ELSE IF err
                THEN auth_connection_destroy([AuthState EXCEPT !.auth_reconnect = TRUE], c)
                ELSE auth_input_data(AuthState, c, conn[c].input \o data)
       IN  /\ (full \/ err) = (data = << >>)
           /\ full => ~err
           /\ Len(conn[c].input) + Len(data) <= MAX_INBUF_SIZE
           /\ SetAuthState(s)
           /\ auth_ev' = Ev("input", s)
    /\ UNCHANGED to
    /\ UNCHANGED <<idxvars, savevars>>

\* auth_init_request(): space and send_ok are the outcomes of
\* o_stream_have_space() and o_stream_send().
AuthInitRequest(mech, opendir_ok, listing, space, send_ok) ==
    /\ to = "added"
    /\ opendir_ok \/ listing = << >>
    /\ auth_reconnect \/ (opendir_ok /\ listing = << >>)
    /\ ScanFits(AuthState, listing)
    /\ LET s0 == IF auth_reconnect
                 THEN auth_connect_missing(AuthState, opendir_ok, listing)
                 ELSE AuthState
           got == auth_connection_get(s0, mech, space)
           s1 == got.s
           registry == [k \in 1..Len(s0.auth_connections) |->
                           [conn |-> s0.auth_connections[k],
                            mechs |-> s0.conn[s0.auth_connections[k]].available_auth_mechs,
                            space |-> space[s0.auth_connections[k]]]]
       IN  /\ \A c \in ConnIds : space[c] \/ \E k \in 1..Len(registry) : registry[k].conn = c
           /\ IF got.conn = 0
              THEN /\ send_ok
                   /\ SetAuthState(s1)
                   /\ auth_ev' = [Ev("init_request", s1) EXCEPT
                                     !.mech = mech, !.ret = FALSE, !.error = got.error,
                                     !.registry = registry,
                                     !.cache = s0.available_auth_mechs]
              ELSE /\ FreeReqs(s1) # {}
                   /\ LET r == MinSlot(FreeReqs(s1))
                          c == got.conn
                          id == next_request_id(s1.request_id_counter)
                          s2 == [s1 EXCEPT
                                    !.request_id_counter = id,
                                    !.request[r] = [NoRequest EXCEPT !.alloc = TRUE,
                                                       !.conn = c, !.id = id],
                                    !.conn[c].requests[id] = r]      \* hash_insert
                          s3 == IF send_ok THEN s2 ELSE auth_connection_destroy(s2, c)
                      IN  /\ SetAuthState(s3)
                          /\ auth_ev' = [Ev("init_request", s3) EXCEPT
                                            !.mech = mech, !.ret = TRUE, !.conn = c,
                                            !.registry = registry,
                                            !.cache = s0.available_auth_mechs]
    /\ UNCHANGED to
    /\ UNCHANGED <<idxvars, savevars>>

\* The caller can use a request it has the pointer of, while the object and
\* its connection are allocated.
CallerHas(r) ==
    /\ request[r].alloc
    /\ request[r].known
    /\ conn[request[r].conn].alloc

\* auth_continue_request(): a send on a closed descriptor fails.
AuthContinueRequest(r, send_ok) ==
    /\ CallerHas(r)
    /\ conn[request[r].conn].fd = -1 => ~send_ok
    /\ LET s == IF send_ok THEN AuthState
                ELSE auth_connection_destroy(AuthState, request[r].conn)
       IN  /\ SetAuthState(s)
           /\ auth_ev' = Ev("continue_request", s)
    /\ UNCHANGED to
    /\ UNCHANGED <<idxvars, savevars>>

\* auth_abort_request(): a caller gives its reference back before it abandons
\* the request.
AuthAbortRequest(r) ==
    /\ CallerHas(r)
    /\ ~request[r].held
    /\ LET c == request[r].conn
           id == request[r].id
           s == [AuthState EXCEPT
                    !.conn[c].requests[id] = 0,  \* hash_remove if hash_lookup != NULL
                    !.request[r] = NoRequest]    \* i_free(request)
       IN  /\ SetAuthState(s)
           /\ auth_ev' = Ev("abort_request", s)
    /\ UNCHANGED to
    /\ UNCHANGED <<idxvars, savevars>>

\* auth_request_ref(): a caller takes at most one reference per request.
AuthRequestRef(r) ==
    /\ CallerHas(r)
    /\ ~request[r].held
    /\ LET c == request[r].conn
           s == [AuthState EXCEPT !.conn[c].refcount = @ + 1,
                                  !.request[r].held = TRUE]
       IN  /\ SetAuthState(s)
           /\ auth_ev' = Ev("request_ref", s)
    /\ UNCHANGED to
    /\ UNCHANGED <<idxvars, savevars>>

\* auth_request_unref(): the caller gives its reference back; it forgets a
\* request whose callback has been called with NULL.
AuthRequestUnref(r) ==
    /\ CallerHas(r)
    /\ request[r].held
    /\ LET c == request[r].conn
           s == auth_connection_unref(
                    [AuthState EXCEPT !.request[r].held = FALSE,
                                      !.request[r].known = (request[r].nulls = 0)], c)
       IN  /\ SetAuthState(s)
           /\ auth_ev' = Ev("request_unref", s)
    /\ UNCHANGED to
    /\ UNCHANGED <<idxvars, savevars>>

\* auth_is_connected()
auth_is_connected(s) == ~s.auth_reconnect /\ s.auth_waiting_handshake_count = 0

\* The while loop of auth_connection_deinit().
RECURSIVE DeinitLoop(_)
DeinitLoop(s) ==
    IF s.auth_connections = << >> THEN s
    ELSE LET next == Tail(s.auth_connections)
             s1 == auth_connection_destroy(s, Head(s.auth_connections))
         IN  DeinitLoop([s1 EXCEPT !.auth_connections = next])

\* auth_connection_deinit()
AuthConnectionDeinit ==
    /\ to = "added"
    /\ LET s == DeinitLoop(AuthState)
       IN  /\ SetAuthState(s)
           /\ auth_ev' = Ev("deinit", s)
    /\ to' = "removed"                           \* timeout_remove(to)
    /\ UNCHANGED <<idxvars, savevars>>

(***************************************************************************)
(*                           Specifications                                *)
(***************************************************************************)

NextIndex ==
    \/ \E seq \in 1..(MaxRecs + 1) : MailIndexLookup(seq)
    \/ \E idx \in 0..(MaxRecs - 1) : MailIndexNext(idx)
    \/ \E first_uid \in Uids : \E last_uid \in Uids :
           MailIndexLookupUidRange(first_uid, last_uid)
    \/ \E first_idx \in 0..(MaxRecs - 1) : \E last_idx \in 0..(MaxRecs - 1) :
           MailIndexExpungeRecordRange(first_idx, last_idx)

InitIndex == IndexInit /\ SaveIdle /\ AuthIdle

SpecIndex == InitIndex /\ [][NextIndex]_vars


NextSave ==
    \/ \E t \in 1..MaxTxn : \E flags \in FlagSets : \E received_date \in ReceivedDates :
       \E create_ok \in BOOLEAN :
           MaildirSaveInit(t, flags, received_date, create_ok)
    \/ \E t \in Txns : \E send \in {"0", "ENOSPC", "EIO"} : MaildirSaveContinue(t, send)
    \/ \E t \in Txns : \E io \in SyscallFailures : \E mail_r, next_ok \in BOOLEAN :
           MaildirSaveFinish(t, io, mail_r, next_ok)
    \/ \E t \in Txns : \E io \in SyscallFailures : MaildirSaveCancel(t, io)
    \/ \E t \in Txns : \E lock_ret \in {-1, 0, 1} : \E sync_ok, deinit_ok \in BOOLEAN :
       \E fail_at \in 0..MaxMsgs : \E fail_in \in {"link", "sync"} :
           MaildirTransactionSaveCommit(t, lock_ret, sync_ok, fail_at, fail_in, deinit_ok)
    \/ \E t \in Txns : MaildirTransactionSaveRollback(t)
    \/ \E t \in Txns : \E i \in 1..MaxMsgs : ExternalDelivery(t, i)

InitSave == IndexIdle /\ SaveInitState /\ AuthIdle

SpecSave == InitSave /\ [][NextSave]_vars

\* The save with the inputs that do not bear on UIDs held fixed (no flags, no
\* received date, no other delivery agent), over more transactions.
NextSaveSerial ==
    \/ \E t \in 1..MaxSerialTxn : \E create_ok \in BOOLEAN :
           MaildirSaveInit(t, {}, NoDate, create_ok)
    \/ \E t \in Txns : \E send \in {"0", "ENOSPC"} : MaildirSaveContinue(t, send)
    \/ \E t \in Txns : \E io \in {"ok", "fsync"} : \E mail_r, next_ok \in BOOLEAN :
           MaildirSaveFinish(t, io, mail_r, next_ok)
    \/ \E t \in Txns : MaildirSaveCancel(t, "ok")
    \/ \E t \in Txns : \E lock_ret \in {-1, 0, 1} : \E sync_ok, deinit_ok \in BOOLEAN :
       \E fail_at \in 0..MaxMsgs : \E fail_in \in {"link", "sync"} :
           MaildirTransactionSaveCommit(t, lock_ret, sync_ok, fail_at, fail_in, deinit_ok)
    \/ \E t \in Txns : MaildirTransactionSaveRollback(t)

InitSaveSerial == IndexIdle /\ SaveInitState /\ keep_recent = TRUE /\ AuthIdle

SpecSaveSerial == InitSaveSerial /\ [][NextSaveSerial]_vars

NextAuth ==
    \/ \E opendir_ok \in BOOLEAN : \E listing \in Listings({"auth-a"}) :
           AuthConnectionInit(opendir_ok, listing)
    \/ \E opendir_ok \in BOOLEAN : \E listing \in Listings({"auth-a"}) :
           AuthConnectMissingTimeout(opendir_ok, listing)
    \/ \E c \in ConnIds : \E err \in BOOLEAN :
       \E data \in ReadChunks({1}) \cup RestChunks \cup {<< >>} :
           AuthInput(c, err, data)
    \/ \E mech \in {1} : \E opendir_ok \in BOOLEAN : \E listing \in Listings({"auth-a"}) :
       \E space \in [ConnIds -> BOOLEAN] : \E send_ok \in BOOLEAN :
           /\ request_id_counter + 1 < IdMod
           /\ AuthInitRequest(mech, opendir_ok, listing, space, send_ok)
    \/ \E r \in ReqIds : \E send_ok \in BOOLEAN : AuthContinueRequest(r, send_ok)
    \/ \E r \in ReqIds : AuthAbortRequest(r)
    \/ \E r \in ReqIds : AuthRequestRef(r)
    \/ \E r \in ReqIds : AuthRequestUnref(r)
    \/ AuthConnectionDeinit

InitAuth == IndexIdle /\ SaveIdle /\ AuthIdle

SpecAuth == InitAuth /\ [][NextAuth]_vars

MaxMuxReqs == 1      \* requests issued in a run of the two-socket specification

\* The multiplexer over two worker sockets: which connection a request goes
\* to.  Whole frames only, no caller references.
NextAuthMux ==
    \/ \E opendir_ok \in BOOLEAN : \E listing \in Listings(Paths) :
           AuthConnectionInit(opendir_ok, listing)
    \/ \E opendir_ok \in BOOLEAN : \E listing \in Listings(Paths) :
           AuthConnectMissingTimeout(opendir_ok, listing)
    \/ \E c \in ConnIds : \E err \in BOOLEAN :
       \E data \in {<<1, 1>>, <<1, 2>>, << >>} :
           AuthInput(c, err, data)
    \/ \E mech \in AuthMechs : \E opendir_ok \in BOOLEAN : \E listing \in Listings(Paths) :
       \E space \in [ConnIds -> BOOLEAN] :
           /\ request_id_counter < MaxMuxReqs
           /\ AuthInitRequest(mech, opendir_ok, listing, space, TRUE)
    \/ AuthConnectionDeinit

SpecAuthMux == InitAuth /\ [][NextAuthMux]_vars

\* One worker socket and a request-id counter that wraps: whole frames only,
\* no caller references.
NextAuthWrap ==
    \/ \E opendir_ok \in BOOLEAN : \E listing \in Listings({"auth-a"}) :
           AuthConnectionInit(opendir_ok, listing)
    \/ \E opendir_ok \in BOOLEAN : \E listing \in Listings({"auth-a"}) :
           AuthConnectMissingTimeout(opendir_ok, listing)
    \/ \E c \in ConnIds : \E err \in BOOLEAN :
       \E data \in {<<1, 1>>, << >>}
                    \cup {<<id, result, 0>> : id \in 1..(IdMod - 1), result \in 1..2} :
           AuthInput(c, err, data)
    \/ \E opendir_ok \in BOOLEAN : \E listing \in Listings({"auth-a"}) :
       \E space \in [ConnIds -> BOOLEAN] : \E send_ok \in BOOLEAN :
           AuthInitRequest(1, opendir_ok, listing, space, send_ok)
    \/ \E r \in ReqIds : AuthAbortRequest(r)
    \/ AuthConnectionDeinit

SpecAuthWrap == InitAuth /\ [][NextAuthWrap]_vars

\* One worker socket whose reads can deliver two replies at once; no caller
\* references, no id wrap.
NextAuthBurst ==
    \/ \E opendir_ok \in BOOLEAN : \E listing \in Listings({"auth-a"}) :
           AuthConnectionInit(opendir_ok, listing)
    \/ \E opendir_ok \in BOOLEAN : \E listing \in Listings({"auth-a"}) :
           AuthConnectMissingTimeout(opendir_ok, listing)
    \/ \E c \in ConnIds : \E err \in BOOLEAN :
       \E data \in {<<1, 1>>, << >>} \cup BurstChunks \cup RestChunks
                    \cup {<<id, result, 0>> : id \in 1..2, result \in 1..2} :
           AuthInput(c, err, data)
    \/ \E opendir_ok \in BOOLEAN : \E listing \in Listings({"auth-a"}) :
       \E space \in [ConnIds -> BOOLEAN] :
           /\ request_id_counter + 1 < IdMod
           /\ AuthInitRequest(1, opendir_ok, listing, space, TRUE)
    \/ AuthConnectionDeinit

SpecAuthBurst == InitAuth /\ [][NextAuthBurst]_vars


(***************************************************************************)
(*                     Claims about the index array                        *)
(***************************************************************************)

\* Sequence numbers of the records whose UID lies in [first_uid, last_uid].
SeqsInRange(rs, first_uid, last_uid) ==
    {s \in 1..Len(rs) : rs[s].uid >= first_uid /\ rs[s].uid <= last_uid}

MinOf(S) == CHOOSE m \in S : \A x \in S : m <= x

\* C9 (as stated): for every strictly increasing record array, the empty one
\* included, and every range 0 < first_uid <= last_uid, lookup_uid_range
\* returns the record with the smallest sequence number whose UID is in the
\* range, with seq its one-based index, and (NULL, 0) iff no record has a UID
\* in the range.
C9_LookupUidRangeCorrect ==
    idx_op.op = "lookup_uid_range" =>
        LET hits == SeqsInRange(recs, idx_op.first_uid, idx_op.last_uid)
        IN  IF hits = {}
            THEN idx_op.res = [rec |-> Null, seq |-> 0]
            ELSE idx_op.res = [rec |-> MinOf(hits) - 1, seq |-> MinOf(hits)]

\* C10: after expunge_range(a, b) on a strictly increasing array the survivors
\* keep strictly increasing UIDs, every record that was at sequence s > b is
\* at sequence s - (b - a + 1), records before a are unchanged, and
\* messages_count equals the new array length.
C10_ExpungeCompaction ==
    idx_op.op = "expunge" =>
        LET a == idx_op.first_idx + 1
            b == idx_op.last_idx + 1
            old == idx_op.old
        IN  /\ StrictlyIncreasing(recs)
            /\ \A s \in (b + 1)..Len(old) : mail_index_lookup(s - (b - a + 1)) = old[s]
            /\ \A s \in 1..(a - 1) : mail_index_lookup(s) = old[s]
            /\ messages_count = MAIL_INDEX_RECORD_COUNT
            /\ messages_count = Len(recs)
            /\ Len(recs) = Len(old) - (b - a + 1)

\* C10 witness: a range of two records expunged from the middle of the array.
C10_Witness ==
    /\ idx_op.op = "expunge"
    /\ idx_op.first_idx > 0
    /\ idx_op.last_idx > idx_op.first_idx
    /\ idx_op.last_idx + 1 < Len(idx_op.old)

(***************************************************************************)
(*                     Claims about the maildir save                       *)
(***************************************************************************)

SeqToSet(sq) == {sq[i] : i \in 1..Len(sq)}
TxnOfIno(ino) == ino \div 10
\* The directory entries of files transaction t created.
OwnFiles(dir, t) == {e \in dir : e[2] # ExtIno /\ TxnOfIno(e[2]) = t}
OkCommits == {i \in 1..Len(commits) : commits[i].result = "ok"}

\* C1 (as stated): after a successful commit of a transaction in which N
\* messages were successfully staged (save_init, save_continue, save_finish
\* each succeeding), whatever other messages of the transaction were cancelled
\* or failed, exactly N new files are in new/ and cur/ together, they are the
\* files of the N messages, these messages carry the contiguous UIDs starting
\* at the next_uid read under the UID-list lock, and none is left in tmp/.
C1_AtomicPublication ==
    \A i \in OkCommits :
        LET c == commits[i]
            staged == SeqToSet(c.staged_ok)
            N == Len(c.staged_ok)
            published == OwnFiles(newdir, c.t) \cup OwnFiles(curdir, c.t)
        IN  /\ Cardinality(published) = N
            /\ {e[2] : e \in published} = staged
            /\ {r.uid : r \in {x \in SeqToSet(c.index_uids) : x.msg \in staged}}
                   = c.next_uid..(c.next_uid + N - 1)
            /\ {r.uid : r \in SeqToSet(c.ul_recs)} = c.next_uid..(c.next_uid + N - 1)
            /\ OwnFiles(tmpdir, c.t) = {}

\* C2 (as stated): after transaction_rollback, and after a commit that failed
\* at any step, no file created by the transaction remains in tmp/, new/ or
\* cur/.
C2_RollbackCompleteness ==
    \A t \in Txns :
        txn[t].state \in {"rolledback", "failed"} =>
            /\ OwnFiles(tmpdir, t) = {}
            /\ OwnFiles(newdir, t) = {}
            /\ OwnFiles(curdir, t) = {}

\* C3 (as stated): a commit links the staged files and gives their names to
\* the UID-list sync session in save_init order m1, m2, ..., mN, the order in
\* which the placeholder records receive their UIDs: the k-th name given to
\* the UID list is the file of the message holding the k-th assigned UID.
C3_CommitOrdering ==
    \A i \in OkCommits :
        LET c == commits[i]
        IN  c.staged_ok = [k \in 1..Len(c.index_uids) |-> c.index_uids[k].msg] =>
            /\ c.linked = [k \in 1..Len(c.index_uids) |-> c.index_uids[k].msg]
            /\ \A k \in 1..Len(c.appended) : c.appended[k].base = c.index_uids[k].msg
            /\ \A k \in 1..Len(c.ul_recs) :
                   /\ c.ul_recs[k].fname.base = c.index_uids[k].msg
                   /\ c.ul_recs[k].uid = c.index_uids[k].uid

CommitUids(c) ==
    {r.uid : r \in SeqToSet(c.index_uids)} \cup {r.uid : r \in SeqToSet(c.ul_recs)}

\* C4: for any two successful commits, A before B, every UID assigned to a
\* message of A is strictly less than every UID assigned to a message of B,
\* whatever commits failed or were rolled back in between.
C4_UidMonotonicity ==
    \A i \in OkCommits : \A j \in OkCommits :
        i < j => \A u \in CommitUids(commits[i]) : \A v \in CommitUids(commits[j]) : u < v

\* C4 witness: two successful commits of two messages each, with a failed
\* commit between them.
C4_Witness ==
    \E i \in OkCommits : \E j \in OkCommits :
        /\ i + 1 < j
        /\ commits[i + 1].result = "fail"
        /\ Len(commits[i].staged_ok) = 2
        /\ Len(commits[j].staged_ok) = 2
        /\ Cardinality(CommitUids(commits[i])) = 2
        /\ Cardinality(CommitUids(commits[j])) = 2

(***************************************************************************)
(*                 Claims about the auth multiplexer                       *)
(***************************************************************************)

\* The callbacks of the last call made with a NULL reply to request r.
NullCalls(r) ==
    {i \in 1..Len(auth_ev.cbs) : auth_ev.cbs[i].null /\ auth_ev.cbs[i].req = r}

\* The requests that were in the table of a connection torn down by the last
\* call.
TornDown == UNION {d.table : d \in SeqToSet(auth_ev.destroyed)}

\* C5: a call that destroys a connection calls back every request that was in
\* the connection's table, once, with NULL; it is the first NULL callback the
\* request gets, no other request is called back with NULL, and a destroy of a
\* connection already destroyed calls nothing back.
C5_CallbackOnTeardown ==
    /\ \A r \in TornDown : Cardinality(NullCalls(r)) = 1
    /\ \A i \in 1..Len(auth_ev.cbs) :
           auth_ev.cbs[i].null => /\ auth_ev.cbs[i].req \in TornDown
                                  /\ auth_ev.cbs[i].nth = 1
    /\ \A r \in ReqIds : request[r].alloc => request[r].nulls <= 1
    /\ auth_ev.again => auth_ev.cbs = << >> /\ auth_ev.destroyed = << >>

\* C5 witness: auth_connection_destroy is called again on a destroyed
\* connection whose two requests were both called back with NULL when it was
\* torn down, and which their caller's references keep allocated.
C5_Witness ==
    /\ auth_ev.again
    /\ \E c \in ConnIds :
           /\ conn[c].alloc
           /\ conn[c].fd = -1
           /\ \A r \in ReqIds : /\ request[r].alloc
                                /\ request[r].conn = c
                                /\ request[r].nulls = 1

\* C6 (as stated): no two requests outstanding at the same time on the same
\* connection have the same id, also after request_id_counter has wrapped;
\* and no request has id 0.
C6_RequestIdUniqueness ==
    /\ \A r \in ReqIds : request[r].alloc => request[r].id # 0
    /\ \A r1 \in ReqIds : \A r2 \in ReqIds :
           ( /\ r1 # r2
             /\ request[r1].alloc /\ request[r2].alloc
             /\ request[r1].nulls = 0 /\ request[r2].nulls = 0
             /\ request[r1].conn = request[r2].conn )
           => request[r1].id # request[r2].id

\* The registry as auth_init_request found it: the positions that advertise
\* the mechanism asked for, and those of them with output-buffer space.
Advertisers ==
    {k \in 1..Len(auth_ev.registry) : BitAnd(auth_ev.registry[k].mechs, auth_ev.mech) # 0}
WithSpace == {k \in Advertisers : auth_ev.registry[k].space}

\* C7 (as stated): auth_init_request succeeds on the first registry connection
\* that advertises mech and has output space; otherwise it fails, with "try
\* again later" and auth_reconnect set when the registry is empty, with
\* "unsupported" when the registry is not empty and no connection of it
\* advertises mech, with "busy" when some advertise mech and none has space.
C7_InitRequestOutcome ==
    auth_ev.op = "init_request" =>
        IF WithSpace # {}
        THEN /\ auth_ev.ret
             /\ auth_ev.conn = auth_ev.registry[MinOf(WithSpace)].conn
        ELSE /\ ~auth_ev.ret
             /\ auth_ev.registry = << >> =>
                    auth_ev.error = "try again later" /\ auth_reconnect
             /\ (auth_ev.registry # << >> /\ Advertisers = {}) =>
                    auth_ev.error = "unsupported"
             /\ Advertisers # {} => auth_ev.error = "busy"

\* Every entry of a request table is an allocated request of that connection
\* with that id.
TableSound ==
    \A c \in ConnIds : \A id \in RequestIds :
        conn[c].requests[id] # 0 =>
            /\ conn[c].alloc
            /\ request[conn[c].requests[id]].alloc
            /\ request[conn[c].requests[id]].conn = c
            /\ request[conn[c].requests[id]].id = id

\* C8: a complete reply whose id is in the connection's table is given to that
\* request's callback, once, and to no other; after CONTINUE the request is
\* still in the table under its id, after any other result the id is out of
\* the table and the request is freed, so that the table never leads a later
\* reply to it.  No reply reaches a callback in any other way.
C8_ReplyDispatch ==
    /\ TableSound
    /\ \A i \in 1..Len(auth_ev.cbs) :
           ~auth_ev.cbs[i].null => auth_ev.dispatch.done /\ auth_ev.dispatch.req # 0
    /\ (auth_ev.dispatch.done /\ auth_ev.dispatch.req # 0) =>
           LET d == auth_ev.dispatch
           IN  /\ auth_ev.cbs = <<[req |-> d.req, null |-> FALSE,
                                   result |-> d.reply.result, nth |-> 0]>>
               /\ IF d.reply.result = AUTH_LOGIN_RESULT_CONTINUE
                  THEN /\ request[d.req].alloc
                       /\ conn[d.conn].requests[d.reply.id] = d.req
                  ELSE /\ ~request[d.req].alloc
                       /\ conn[d.conn].requests[d.reply.id] = 0

\* C8 witness: a FAILURE reply that carries data retires its request while
\* another request stays in the table.
C8_Witness ==
    /\ auth_ev.dispatch.done
    /\ auth_ev.dispatch.req # 0
    /\ auth_ev.dispatch.reply.result = AUTH_LOGIN_RESULT_CONTINUE + 2
    /\ auth_ev.dispatch.reply.data_size = 1
    /\ conn[auth_ev.dispatch.conn].requests # EmptyHash

\* C11 (as stated): whatever the mailbox's settings, a message save_init has
\* staged has no destination name exactly when the flags passed contain no
\* flag other than RECENT, and a flag-encoded one otherwise; files of the
\* transactions are in new/ under their raw basename and in cur/ under a
\* flag-encoded name only.
C11_DestinationSelection ==
    /\ [](\A e \in newdir \cup curdir :
              e[2] # ExtIno => (e[1].suffix = "" <=> e \in newdir))
    /\ [][\A t \in Txns : \A flags \in FlagSets : \A received_date \in ReceivedDates :
              MaildirSaveInit(t, flags, received_date, TRUE) =>
                  LET mf == Head(save_ctx'[t].files)
                  IN  IF flags \subseteq {MAIL_RECENT}
                      THEN mf.dest = NullName
                      ELSE mf.dest = maildir_filename_set_flags(mf.basename.base,
                                                                save_mail_flags(flags))]_vars

\* The failed flag of the context of transaction t has been set since the
\* transaction began: a save_init of it could not create its temp file, or a
\* save_finish or save_cancel of it took the failure path, which unlinks the
\* temp file.
FailedWasSet(t) ==
    /\ txn[t].state = "open"
    /\ \E k \in 1..Len(txn[t].msgs) :
           \/ txn[t].msgs[k].base = 0
           \/ /\ txn[t].msgs[k].finish = "fail"
              /\ ~DirHas(tmpdir, Name(txn[t].msgs[k].base, ""))

\* C12 (as stated): once the failed flag of a save context has been set, every
\* later save_continue and save_finish call on the context returns an error,
\* whatever calls were made on the context in between.
C12_StickyErrors ==
    \A t \in Txns :
        ( /\ FailedWasSet(t)
          /\ save_ret.t = t
          /\ save_ret.call \in {"continue", "finish"} )
        => save_ret.ret = -1

\* The call of the step is refused: it returns an error, writes no message
\* data, creates no file and leaves the flag set.
Refused(t) ==
    /\ save_ret'.ret = -1
    /\ txn'[t].written = txn[t].written
    /\ tmpdir' \subseteq tmpdir
    /\ save_ctx'[t].failed

\* C12 (amended): while the failed flag of a save context is set, every
\* save_continue and save_finish call on the context returns an error and
\* writes no message data; the flag stays set until the transaction ends or a
\* save_init on the context creates its temp file, which clears it.
C12_StickyUntilInit ==
    [][\A t \in Txns : save_ctx[t].failed =>
          /\ \A send \in {"0", "ENOSPC", "EIO"} : MaildirSaveContinue(t, send) => Refused(t)
          /\ \A io \in SyscallFailures : \A mail_r, next_ok \in BOOLEAN :
                 MaildirSaveFinish(t, io, mail_r, next_ok) => Refused(t)
          /\ \/ save_ctx'[t].failed
             \/ txn'[t].state # "open"
             \/ \E flags \in FlagSets : \E received_date \in ReceivedDates :
                    MaildirSaveInit(t, flags, received_date, TRUE)]_vars

\* C12 witness: save_continue is called on a failed context after the message
\* has been finished or cancelled, and returns an error.
C12_Witness ==
    \E t \in Txns :
        /\ save_ret = [call |-> "continue", t |-> t, ret |-> -1]
        /\ save_ctx[t].failed
        /\ txn[t].pc = "idle"
        /\ Len(txn[t].msgs) = 2
        /\ txn[t].msgs[1].finish = "ok"

\* The message transaction t is saving: the last one save_init was called for.
CurrentMsg(t) == txn[t].msgs[Len(txn[t].msgs)]

\* The step takes the record of the current message of t off the list and
\* unlinks its temp file, and nothing else.
DropsCurrent(t) ==
    /\ txn[t].pc = "saving"
    /\ save_ctx[t].files # << >>
    /\ Head(save_ctx[t].files).basename = Name(CurrentMsg(t).base, "")
    /\ save_ctx'[t].files = Tail(save_ctx[t].files)
    /\ tmpdir' = DirUnlink(tmpdir, Name(CurrentMsg(t).base, ""))

\* C13: while a transaction is open the record and the temp file of every
\* message whose save_finish succeeded stay; a save_finish or save_cancel step
\* that takes a record off the list or a file out of tmp/ takes exactly those
\* of the message being saved; save_cancel of a message whose temp file was
\* created does take them; and after a failed temp-file creation, or when
\* repeated, save_finish and save_cancel take nothing.
C13_HeadIsCurrent ==
    /\ [](\A t \in Txns : \A k \in 1..Len(txn[t].msgs) :
              (txn[t].state = "open" /\ txn[t].msgs[k].finish = "ok") =>
                  /\ DirHas(tmpdir, Name(txn[t].msgs[k].base, ""))
                  /\ \E i \in 1..Len(save_ctx[t].files) :
                         save_ctx[t].files[i].basename = Name(txn[t].msgs[k].base, ""))
    /\ [][\A t \in Txns : \A io \in SyscallFailures : \A mail_r, next_ok \in BOOLEAN :
              LET call == \/ MaildirSaveFinish(t, io, mail_r, next_ok)
                          \/ MaildirSaveCancel(t, io)
              IN  /\ (call /\ (save_ctx'[t].files # save_ctx[t].files \/ tmpdir' # tmpdir))
                         => DropsCurrent(t)
                  /\ (MaildirSaveCancel(t, io) /\ txn[t].pc = "saving"
                                               /\ save_ctx[t].fd # -1)
                         => DropsCurrent(t)
                  /\ (call /\ (txn[t].pc = "idle" \/ save_ctx[t].fd = -1))
                         => /\ save_ctx'[t].files = save_ctx[t].files
                            /\ tmpdir' = tmpdir]_vars

\* C13 witness: the second message of a transaction was cancelled after its
\* temp file was made, then save_cancel was called again; the record and the
\* temp file of the first message, which was finished, are still there.
C13_Witness ==
    \E t \in Txns :
        /\ txn[t].state = "open"
        /\ save_ret = [call |-> "cancel", t |-> t, ret |-> -1]
        /\ Len(txn[t].msgs) = 2
        /\ txn[t].msgs[1].finish = "ok"
        /\ txn[t].msgs[2].base # 0
        /\ txn[t].msgs[2].finish = "fail"
        /\ Len(save_ctx[t].files) = 1
        /\ Head(save_ctx[t].files).basename = Name(txn[t].msgs[1].base, "")
        /\ DirHas(tmpdir, Name(txn[t].msgs[1].base, ""))
        /\ ~DirHas(tmpdir, Name(txn[t].msgs[2].base, ""))

(***************************************************************************)
(*                  Claims about the auth object lifetimes                 *)
(***************************************************************************)

\* Every connection has been destroyed (auth_connection_deinit has run) and no
\* caller has a request left to abort or a reference left to release.
Quiescent ==
    /\ to = "removed"
    /\ auth_connections = << >>
    /\ \A r \in ReqIds : request[r].alloc => (~request[r].known /\ ~request[r].held)

\* C14: once every caller has aborted or released its requests and every
\* connection has been destroyed, no auth connection and no auth request is
\* still allocated.
C14_ObjectLifecycle ==
    Quiescent => /\ \A c \in ConnIds : ~conn[c].alloc
                 /\ \A r \in ReqIds : ~request[r].alloc

\* C15: the id auth_init_request gives a new request is never zero, whatever
\* the value of request_id_counter, the one before the wrap included: no
\* allocated request has id 0, no request table has an entry under 0, and the
\* counter is not left at 0 by a call that made a request.
C15_IdZeroNeverIssued ==
    /\ \A counter \in RequestIds : next_request_id(counter) # 0
    /\ \A r \in ReqIds : request[r].alloc => request[r].id # 0
    /\ \A c \in ConnIds : conn[c].requests[0] = 0
    /\ (auth_ev.op = "init_request" /\ auth_ev.ret) => request_id_counter # 0

\* C15 witness: a request was made when the counter stood at its last value
\* (the request with the highest id is still outstanding): it has id 1.
C15_Witness ==
    /\ auth_ev.op = "init_request"
    /\ auth_ev.ret
    /\ request_id_counter = 1
    /\ \E r \in ReqIds : request[r].alloc /\ request[r].id = IdMod - 1
    /\ \E r \in ReqIds : request[r].alloc /\ request[r].id = 1

\* The registry connections whose handshake has not been received.
WaitingHandshake ==
    {k \in 1..Len(auth_connections) : ~conn[auth_connections[k]].handshake_received}

\* C16: auth_waiting_handshake_count is the number of registry connections
\* whose handshake has not been received, and never goes below zero; so
\* auth_is_connected() is true exactly when auth_reconnect is clear and no
\* registry connection is waiting for its handshake.
C16_IsConnected ==
    /\ auth_waiting_handshake_count = Cardinality(WaitingHandshake)
    /\ auth_waiting_handshake_count >= 0
    /\ auth_is_connected(AuthState) <=> (~auth_reconnect /\ WaitingHandshake = {})

\* C16 witness: the only connection was destroyed on input before any
\* handshake was accepted and without a read error, that is for a handshake
\* with pid 0 or an oversized one; auth_is_connected() is true again.
C16_Witness ==
    /\ auth_ev.op = "input"
    /\ Len(auth_ev.destroyed) = 1
    /\ available_auth_mechs = 0
    /\ ~auth_reconnect
    /\ auth_connections = << >>
    /\ auth_waiting_handshake_count = 0
    /\ auth_is_connected(AuthState)

\* C17: auth_abort_request(r) takes r out of its connection's table and frees
\* it; it calls no callback, destroys and sends nothing, and leaves the
\* registry, the connection's other fields, the other table entries and every
\* other request as they were.  No table then leads a reply to the freed r.
C17_AbortRequest ==
    [][\A r \in ReqIds :
          AuthAbortRequest(r) =>
              LET c == request[r].conn
              IN  /\ \A id \in RequestIds : conn'[c].requests[id] # r
                  /\ ~request'[r].alloc
                  /\ auth_ev'.cbs = << >>
                  /\ auth_ev'.destroyed = << >>
                  /\ auth_connections' = auth_connections
                  /\ \A q \in ReqIds \ {r} : request'[q] = request[q]
                  /\ \A id \in RequestIds :
                         conn[c].requests[id] # r =>
                             conn'[c].requests[id] = conn[c].requests[id]
                  /\ conn' = [conn EXCEPT ![c].requests = conn'[c].requests]]_vars

\* The step destroys connection c: it is off the registry, its descriptor is
\* closed, every request of its table has been called back with NULL, and
\* auth_reconnect is as it was.
DestroysConn(c) ==
    /\ auth_ev'.destroyed = <<[conn |-> c, table |-> HashValues(conn[c].requests)]>>
    /\ \A k \in 1..Len(auth_connections') : auth_connections'[k] # c
    /\ conn'[c].fd = -1
    /\ \A r \in HashValues(conn[c].requests) :
           \E i \in 1..Len(auth_ev'.cbs) : auth_ev'.cbs[i].req = r /\ auth_ev'.cbs[i].null
    /\ auth_reconnect' = auth_reconnect

\* The step leaves connection c connected, with its table: nothing is
\* destroyed, no callback is made, no request changes.
KeepsConn(c) ==
    /\ auth_ev'.destroyed = << >>
    /\ auth_ev'.cbs = << >>
    /\ auth_connections' = auth_connections
    /\ request' = request
    /\ conn'[c].fd = conn[c].fd
    /\ conn'[c].requests = conn[c].requests
    /\ auth_reconnect' = auth_reconnect

\* The three worker errors auth_input() can meet on connection c with `data`
\* read: a complete reply whose id is not in the table, more than a handshake
\* before the handshake, a full input buffer.
UnknownReplyId(c) ==
    /\ auth_ev'.op = "input"
    /\ auth_ev'.dispatch.done
    /\ auth_ev'.dispatch.conn = c
    /\ auth_ev'.dispatch.req = 0
OversizedHandshake(c, data) ==
    ~conn[c].handshake_received /\ Len(conn[c].input \o data) > SizeofHandshake
InputBufferFull(c) == Len(conn[c].input) >= MAX_INBUF_SIZE

\* C18: a reply with an unknown id, an oversized handshake and a full input
\* buffer each end with the connection destroyed and its pending requests
\* called back with NULL.
C18_WorkerBugHandling ==
    [][\A c \in ConnIds : \A data \in ReadChunks({1}) \cup RestChunks \cup {<< >>} :
          AuthInput(c, FALSE, data) =>
              /\ UnknownReplyId(c) => DestroysConn(c)
              /\ OversizedHandshake(c, data) => DestroysConn(c)
              /\ InputBufferFull(c) => DestroysConn(c)]_vars

\* C18, amended: an oversized handshake and a full input buffer end with the
\* connection destroyed and its pending requests called back with NULL; a
\* reply with an unknown id is dropped and the connection stays as it is.
C18_UnknownIdIgnored ==
    [][\A c \in ConnIds : \A data \in ReadChunks({1}) \cup RestChunks \cup {<< >>} :
          AuthInput(c, FALSE, data) =>
              /\ UnknownReplyId(c) => KeepsConn(c)
              /\ OversizedHandshake(c, data) => DestroysConn(c)
              /\ InputBufferFull(c) => DestroysConn(c)]_vars

\* C18 witness: a reply with an unknown id has been read from a connection
\* that has a request outstanding; the connection is still in the registry
\* and the request in its table.
C18_Witness ==
    /\ auth_ev.op = "input"
    /\ auth_ev.dispatch.done
    /\ auth_ev.dispatch.req = 0
    /\ auth_ev.destroyed = << >>
    /\ \E k \in 1..Len(auth_connections) :
           /\ auth_connections[k] = auth_ev.dispatch.conn
           /\ HashValues(conn[auth_connections[k]].requests) # {}

\* The registry's count for connection c (1 when c is on the list), and the
\* requests allocated on c.
RegCount(list, c) == IF \E k \in 1..Len(list) : list[k] = c THEN 1 ELSE 0
RequestsOn(c) == {r \in ReqIds : request[r].alloc /\ request[r].conn = c}

\* C19: the refcount of a live connection is the registry's count plus one
\* for each request outstanding on it.
C19_RefcountDiscipline ==
    \A c \in ConnIds :
        conn[c].alloc =>
            conn[c].refcount = RegCount(auth_connections, c) + Cardinality(RequestsOn(c))

\* The step is auth_request_ref / auth_request_unref of a request of c.
RefTaken(c) == \E r \in ReqIds : AuthRequestRef(r) /\ request[r].conn = c
RefGiven(c) == \E r \in ReqIds : AuthRequestUnref(r) /\ request[r].conn = c

\* C19, what the code keeps in its place: the refcount of a live connection is
\* the registry's count plus the references taken with auth_request_ref and
\* not given back with auth_request_unref.  A new connection has the registry's count alone; over
\* any call the count beyond the registry's goes up by one in auth_request_ref,
\* down by one in auth_request_unref and is otherwise unchanged (so
\* auth_init_request, replies and auth_abort_request add and release nothing);
\* a connection is freed by its teardown when no reference is out, with the
\* requests still in its table, and otherwise by the last auth_request_unref.
C19_RefsByRefUnrefOnly ==
    /\ [](\A c \in ConnIds :
              conn[c].alloc =>
                  /\ conn[c].refcount >= 1
                  /\ conn[c].refcount >= RegCount(auth_connections, c)
                  /\ (RegCount(auth_connections, c) = 1) <=> (conn[c].fd # -1))
    /\ [][\A c \in ConnIds :
              LET before == conn[c].refcount - RegCount(auth_connections, c)
                  after == conn'[c].refcount - RegCount(auth_connections', c)
              IN  /\ (conn[c].alloc /\ conn'[c].alloc) =>
                         after = before + (IF RefTaken(c) THEN 1
                                           ELSE IF RefGiven(c) THEN -1 ELSE 0)
                  /\ (~conn[c].alloc /\ conn'[c].alloc) =>
                         (conn'[c].refcount = 1 /\ after = 0)
                  /\ (conn[c].alloc /\ ~conn'[c].alloc) =>
                         \/ before = 0 /\ RegCount(auth_connections, c) = 1
                         \/ before = 1 /\ RegCount(auth_connections, c) = 0 /\ RefGiven(c)
                  /\ (conn[c].alloc /\ before = 0 /\ RegCount(auth_connections, c) = 1
                                    /\ RegCount(auth_connections', c) = 0) =>
                         /\ ~conn'[c].alloc
                         /\ \A r \in HashValues(conn[c].requests) : ~request'[r].alloc]_vars

\* C19 witness: the teardown of a connection with a request outstanding, and
\* no reference taken, has freed the connection and the request.
C19_Witness ==
    /\ Len(auth_ev.destroyed) = 1
    /\ auth_ev.destroyed[1].table # {}
    /\ ~conn[auth_ev.destroyed[1].conn].alloc
    /\ \A r \in auth_ev.destroyed[1].table : ~request[r].alloc

\* C20: the process-wide available_auth_mechs is the union of the mechanisms
\* advertised by the connections in the registry.
C20_MechanismCache ==
    available_auth_mechs = OrMechs(AuthState, auth_connections)

\* C20, amended: the cache never lacks a mechanism a registry connection
\* advertises; it is set to the union over the registry by the call that
\* accepts a handshake, and no other call, a teardown included, changes it.
C20_CacheSetAtHandshake ==
    /\ [](BitAnd(available_auth_mechs, OrMechs(AuthState, auth_connections))
              = OrMechs(AuthState, auth_connections))
    /\ [][IF \E c \in ConnIds : ~conn[c].handshake_received /\ conn'[c].handshake_received
          THEN available_auth_mechs' = OrMechs([conn |-> conn'], auth_connections')
          ELSE available_auth_mechs' = available_auth_mechs]_vars

\* C20 witness: the last connection has been torn down and the cache still
\* holds what it advertised.
C20_Witness ==
    /\ Len(auth_ev.destroyed) = 1
    /\ auth_connections = << >>
    /\ available_auth_mechs # 0

(***************************************************************************)
(*            Claims about what the code leaves unsaid                     *)
(***************************************************************************)

\* C21: whenever maildir_transaction_save_commit can be called, the index
\* transaction holds as many placeholder records as the save context holds
\* staged files; and a commit that got through has given UIDs to exactly the
\* messages whose files it linked.
C21_StagedMatchPlaceholders ==
    /\ \A t \in Txns :
           (txn[t].state = "open" /\ save_ctx[t].created /\ txn[t].pc = "idle") =>
               Len(index_trans[t]) = Len(save_ctx[t].files)
    /\ \A i \in 1..Len(commits) :
           commits[i].result # "fail" =>
               /\ Len(commits[i].index_uids) = Len(commits[i].linked)
               /\ {commits[i].index_uids[k].msg : k \in 1..Len(commits[i].index_uids)}
                      = SeqToSet(commits[i].linked)

\* C22: no call takes out of new/ or cur/ a file that was there before the
\* call: what a failed commit unlinks there are files it linked itself, and
\* transaction_rollback unlinks in tmp/ only.  A file another program put
\* under the name a staged message was to take stays.
C22_OnlyOwnFilesUnlinked ==
    [][newdir \subseteq newdir' /\ curdir \subseteq curdir']_vars

\* C22 witness: a commit has failed and rolled back, and the file another
\* program had put into new/ under the name of a staged message is there.
C22_Witness ==
    /\ save_ret.call = "commit"
    /\ save_ret.ret = -1
    /\ \E e \in newdir :
           /\ e[2] = ExtIno
           /\ e[1] = Name(maildir_create_tmp(save_ret.t, 1), "")
    /\ \A e \in tmpdir \cup newdir \cup curdir : e[2] # ExtIno => TxnOfIno(e[2]) # save_ret.t

\* A reply is complete in the input buffer of connection c: its header, or the
\* header auth_input() has already copied to conn->reply, and data_size words
\* of payload.
CompleteReplyBuffered(c) ==
    IF conn[c].reply_received
    THEN Len(conn[c].input) >= conn[c].reply.data_size
    ELSE /\ Len(conn[c].input) >= SizeofReply
         /\ Len(conn[c].input) - SizeofReply >= conn[c].input[3]

\* C23: every reply completely received on a live connection is given to
\* auth_handle_reply without the worker sending anything more.  auth_input()
\* runs only when the descriptor has new bytes, an error or a full buffer, so
\* this says: when auth_input() has returned, no complete reply is left in
\* the buffer of a live connection.
C23_ReplyDispatchLiveness ==
    \A c \in ConnIds :
        (conn[c].alloc /\ conn[c].fd # -1 /\ conn[c].handshake_received) =>
            ~CompleteReplyBuffered(c)

=============================================================================
